---------------------------- MODULE Spec2Model ----------------------------
(***************************************************************************)
(* ts-rest express adapter: route registration (createExpressEndpoints,    *)
(* recursivelyApplyExpressRouter, initializeExpressRoute) and the          *)
(* per-request handler chain (contextMiddleware, middleware,               *)
(* mainReqHandler with validateRequest).                                   *)
(***************************************************************************)
EXTENDS Integers, Sequences, FiniteSets, TLC

(***************************************************************************)
(* Bounds of the explored inputs.                                          *)
(***************************************************************************)
\* widest top-level router object (number of keys)
MaxWidth == 2
\* widest nested router object (number of keys)
MaxInnerWidth == 1

\* Property names used as keys of the top-level router and of nested routers.
\* "handler" is the property the walker inspects to tell an options object
\* from a nested router.
TopKeys == {"a", "b"}
InnerKeys == {"a", "handler"}

(***************************************************************************)
(* JavaScript values of the implementation tree.                           *)
(***************************************************************************)
Undefined == [t |-> "undefined"]
Fn(name) == [t |-> "function", name |-> name]
Arr(items) == [t |-> "array", items |-> items]
Obj(props) == [t |-> "object", props |-> props]
Prop(k, v) == [k |-> k, v |-> v]

\* typeof x === 'function'
IsFunction(x) == x.t = "function"
\* typeof x === 'object'
IsObject(x) == x.t \in {"object", "array"}

IndexKey == <<"0", "1", "2", "3">>
\* the enumerable own properties of a value, in for-in order
Entries(x) ==
  IF x.t = "object" THEN x.props
  ELSE IF x.t = "array"
       THEN [i \in 1..Len(x.items) |-> Prop(IndexKey[i], Fn(x.items[i]))]
       ELSE << >>

\* x?.[k] : the value of property k, undefined when absent
Get(x, k) ==
  IF \E i \in 1..Len(Entries(x)) : Entries(x)[i].k = k
  THEN Entries(x)[CHOOSE i \in 1..Len(Entries(x)) : Entries(x)[i].k = k].v
  ELSE Undefined

(***************************************************************************)
(* Schema trees (AppRouter | AppRoute).                                    *)
(***************************************************************************)
NoShape == [declared |-> FALSE]
Shape(req) == [declared |-> TRUE, fields |-> req]

Route(method, path, pathParams, headers, query, hasBody, body, responses) ==
  [tag |-> "route", method |-> method, path |-> path,
   pathParams |-> pathParams, headers |-> headers, query |-> query,
   hasBody |-> hasBody, body |-> body, responses |-> responses]
Router(kids) == [tag |-> "router", kids |-> kids]
NoSchema == [tag |-> "undefined"]

\* schema[key]
SchemaAt(schema, key) ==
  IF schema.tag = "router" /\ key \in DOMAIN schema.kids
  THEN schema.kids[key] ELSE NoSchema

\* isAppRoute(obj): 'method' in obj && 'path' in obj; the `in` operator
\* applied to undefined raises a TypeError
isAppRoute(schema) == schema.tag = "route"
isAppRouteThrows(schema) == schema.tag = "undefined"

SupportedMethods == {"GET", "DELETE", "POST", "PUT", "PATCH"}


(***************************************************************************)
(* initializeExpressRoute: the handler chain and its registration.         *)
(***************************************************************************)
\* a JavaScript value is truthy unless it is undefined (the only falsy value
\* the options and implementation objects carry here)
Truthy(x) == x.t # "undefined"

\* isAppRouteImplementation(obj): the implementation is the bare handler
isAppRouteImplementation(impl) == IsFunction(impl)

\* const handler = isAppRouteImplementation(i) ? i : i.handler
HandlerOf(impl) ==
  IF isAppRouteImplementation(impl) THEN impl ELSE Get(impl, "handler")

\* the request handlers of a chain, as the closures the code builds
ContextMiddlewareOf(contextFunction, route) ==
  [kind |-> "contextMiddleware", contextFunction |-> contextFunction,
   route |-> route]
MiddlewareOf(name) == [kind |-> "middleware", name |-> name]
MainReqHandlerOf(handler, schema) ==
  [kind |-> "mainReqHandler", handler |-> handler, schema |-> schema]

MiddlewareList(arr) == [i \in 1..Len(arr.items) |-> MiddlewareOf(arr.items[i])]

\* mutant: the per-route middleware pushed before the global middleware
HandlersRouteFirst(impl, schema, options, contextFunction) ==
  <<ContextMiddlewareOf(contextFunction, schema)>>
  \o (IF ~isAppRouteImplementation(impl) /\ Truthy(Get(impl, "middleware"))
      THEN MiddlewareList(Get(impl, "middleware")) ELSE << >>)
  \o (IF Truthy(options.globalMiddleware)
      THEN MiddlewareList(options.globalMiddleware) ELSE << >>)
  \o <<MainReqHandlerOf(HandlerOf(impl), schema)>>

\* mutant: the main handler registered ahead of the middleware
HandlersMainFirst(impl, schema, options, contextFunction) ==
  <<ContextMiddlewareOf(contextFunction, schema)>>
  \o <<MainReqHandlerOf(HandlerOf(impl), schema)>>
  \o (IF Truthy(options.globalMiddleware)
      THEN MiddlewareList(options.globalMiddleware) ELSE << >>)
  \o (IF ~isAppRouteImplementation(impl) /\ Truthy(Get(impl, "middleware"))
      THEN MiddlewareList(Get(impl, "middleware")) ELSE << >>)

\* the `handlers` array of initializeExpressRoute
Handlers(impl, schema, options, contextFunction) ==
  <<ContextMiddlewareOf(contextFunction, schema)>>
  \o (IF Truthy(options.globalMiddleware)
      THEN MiddlewareList(options.globalMiddleware) ELSE << >>)
  \o (IF ~isAppRouteImplementation(impl) /\ Truthy(Get(impl, "middleware"))
      THEN MiddlewareList(Get(impl, "middleware")) ELSE << >>)
  \o <<MainReqHandlerOf(HandlerOf(impl), schema)>>

\* app.get / app.delete / app.post / app.put / app.patch (schema.path, ...handlers)
Registration(call, path, handlers) ==
  [call |-> call, path |-> path, handlers |-> handlers]

\* the switch over schema.method: the registration call made, if any
RegisterCall(method) ==
  CASE method = "GET" -> "get"
    [] method = "DELETE" -> "delete"
    [] method = "POST" -> "post"
    [] method = "PUT" -> "put"
    [] method = "PATCH" -> "patch"
    [] OTHER -> "none"

\* initializeExpressRoute: the router's registrations after the call
InitializeExpressRoute(impl, schema, routes, options, contextFunction) ==
  IF RegisterCall(schema.method) = "none" THEN routes
  ELSE Append(routes,
              Registration(RegisterCall(schema.method), schema.path,
                           Handlers(impl, schema, options, contextFunction)))

(***************************************************************************)
(* recursivelyApplyExpressRouter.  The walk state st carries the router's  *)
(* registrations so far (routes), the processRoute invocations so far      *)
(* (calls) and the error thrown, if any (err); a thrown error unwinds the  *)
(* whole walk.                                                             *)
(***************************************************************************)
NoError == "none"
ExpectedRouterError == "[ts-rest] Expected AppRouter but received AppRoute"
ExpectedRouteError == "[ts-rest] Expected AppRoute but received AppRouter"
TypeErrorThrown == "TypeError"

\* the processRoute callback createExpressEndpoints passes to the walk
ProcessRoute(impl, schema, st, options, contextFunction) ==
  [st EXCEPT !.calls = Append(@, [implementation |-> impl, schema |-> schema]),
             !.routes = InitializeExpressRoute(impl, schema, @, options,
                                               contextFunction)]

RECURSIVE recursivelyApplyExpressRouter(_, _, _, _, _)
RECURSIVE ApplyKeys(_, _, _, _, _, _)

\* the body of the for-in loop, from the i-th enumerated key on
ApplyKeys(schema, router, i, st, options, contextFunction) ==
  IF st.err # NoError \/ i > Len(Entries(router)) THEN st
  ELSE IF isAppRouteThrows(schema) THEN [st EXCEPT !.err = TypeErrorThrown]
  ELSE IF isAppRoute(schema) THEN [st EXCEPT !.err = ExpectedRouterError]
  ELSE ApplyKeys(schema, router, i + 1,
                 recursivelyApplyExpressRouter(
                   SchemaAt(schema, Entries(router)[i].k),
                   Entries(router)[i].v, st, options, contextFunction),
                 options, contextFunction)

\* mutant: a leaf implementation facing a router is skipped without an error
ApplyLeafSilently(schema, router, st, options, contextFunction) ==
  IF st.err # NoError THEN st
  ELSE IF IsObject(router) /\ ~IsFunction(Get(router, "handler"))
  THEN ApplyKeys(schema, router, 1, st, options, contextFunction)
  ELSE IF IsFunction(router) \/ IsFunction(Get(router, "handler"))
  THEN IF isAppRouteThrows(schema) THEN [st EXCEPT !.err = TypeErrorThrown]
       ELSE IF ~isAppRoute(schema) THEN st
       ELSE ProcessRoute(router, schema, st, options, contextFunction)
  ELSE st

recursivelyApplyExpressRouter(schema, router, st, options, contextFunction) ==
  IF st.err # NoError THEN st
  ELSE IF IsObject(router) /\ ~IsFunction(Get(router, "handler"))
  THEN ApplyKeys(schema, router, 1, st, options, contextFunction)
  ELSE IF IsFunction(router) \/ IsFunction(Get(router, "handler"))
  THEN IF isAppRouteThrows(schema) THEN [st EXCEPT !.err = TypeErrorThrown]
       ELSE IF ~isAppRoute(schema) THEN [st EXCEPT !.err = ExpectedRouteError]
       ELSE ProcessRoute(router, schema, st, options, contextFunction)
  ELSE st

\* the outcome of createExpressEndpoints(schema, router, app, options) on a
\* router `app` holding the registrations `routes`
EndpointsOutcome(schema, router, routes, options, contextFunction) ==
  recursivelyApplyExpressRouter(
    schema, router, [routes |-> routes, calls |-> << >>, err |-> NoError],
    options, contextFunction)


(***************************************************************************)
(* Request data: maps from property names to tagged JavaScript values.     *)
(***************************************************************************)
Str(v) == [t |-> "string", v |-> v]
Bool(v) == [t |-> "boolean", v |-> v]
Num(v) == [t |-> "number", v |-> v]
EmptyMap == [k \in {} |-> Str("")]

\* checkZodSchema(data, schema, { passThroughExtraKeys }): no declared shape
\* accepts the data as is; a declared shape requires every field with its
\* type, tolerates undeclared keys only in pass-through mode, and returns
\* the raw validator error on failure
checkZodSchema(data, schema, passThroughExtraKeys) ==
  IF ~schema.declared THEN [success |-> TRUE, data |-> data]
  ELSE LET bad == {k \in DOMAIN schema.fields :
                     k \notin DOMAIN data \/ data[k].t # schema.fields[k]}
           extra == IF passThroughExtraKeys THEN {}
                    ELSE DOMAIN data \ DOMAIN schema.fields
       IN IF bad = {} /\ extra = {}
          THEN [success |-> TRUE, data |-> data]
          ELSE [success |-> FALSE,
                error |-> [name |-> "ZodError", issues |-> bad \cup extra]]

\* JSON.parse of one query string value, the raw string kept when it is not
\* valid JSON
JsonDecode(value) ==
  CASE value.v \in {"true", "false"} -> Bool(value.v)
    [] value.v \in {"1", "2"} -> Num(value.v)
    [] OTHER -> value

\* parseJsonQueryObject(query)
parseJsonQueryObject(query) == [k \in DOMAIN query |-> JsonDecode(query[k])]

ValidationSteps == <<"pathParams", "headers", "query", "body">>

\* res.status(400).send(error), as validateRequest returns it; `evaluated`
\* lists the checkZodSchema calls made
Rejected(evaluated, error) ==
  [rejected |-> TRUE, status |-> 400, body |-> error,
   evaluated |-> SubSeq(ValidationSteps, 1, evaluated)]

\* mutant: headers are checked before path parameters
ValidateHeadersFirst(req, schema, options) ==
  LET paramsResult == checkZodSchema(req.params, schema.pathParams, TRUE)
      headersResult == checkZodSchema(req.headers, schema.headers, TRUE)
      query == IF options.jsonQuery THEN parseJsonQueryObject(req.query)
               ELSE req.query
      queryResult == checkZodSchema(query, schema.query, FALSE)
      bodyResult == checkZodSchema(req.body,
                      IF schema.hasBody THEN schema.body ELSE NoShape, FALSE)
  IN IF ~headersResult.success THEN Rejected(1, headersResult.error)
     ELSE IF ~paramsResult.success THEN Rejected(2, paramsResult.error)
     ELSE IF ~queryResult.success THEN Rejected(3, queryResult.error)
     ELSE IF ~bodyResult.success THEN Rejected(4, bodyResult.error)
     ELSE [rejected |-> FALSE, evaluated |-> ValidationSteps,
           paramsResult |-> paramsResult, headersResult |-> headersResult,
           queryResult |-> queryResult, bodyResult |-> bodyResult]

\* mutant: path parameters and headers are checked without pass-through of
\* extra keys
ValidateParamsStrict(req, schema, options) ==
  LET paramsResult == checkZodSchema(req.params, schema.pathParams, FALSE)
      headersResult == checkZodSchema(req.headers, schema.headers, FALSE)
      query == IF options.jsonQuery THEN parseJsonQueryObject(req.query)
               ELSE req.query
      queryResult == checkZodSchema(query, schema.query, FALSE)
      bodyResult == checkZodSchema(req.body,
                      IF schema.hasBody THEN schema.body ELSE NoShape, FALSE)
  IN IF ~paramsResult.success THEN Rejected(1, paramsResult.error)
     ELSE IF ~headersResult.success THEN Rejected(2, headersResult.error)
     ELSE IF ~queryResult.success THEN Rejected(3, queryResult.error)
     ELSE IF ~bodyResult.success THEN Rejected(4, bodyResult.error)
     ELSE [rejected |-> FALSE, evaluated |-> ValidationSteps,
           paramsResult |-> paramsResult, headersResult |-> headersResult,
           queryResult |-> queryResult, bodyResult |-> bodyResult]

\* mutant: the raw query is checked whatever options.jsonQuery says
ValidateRawQuery(req, schema, options) ==
  LET paramsResult == checkZodSchema(req.params, schema.pathParams, TRUE)
      headersResult == checkZodSchema(req.headers, schema.headers, TRUE)
      queryResult == checkZodSchema(req.query, schema.query, FALSE)
      bodyResult == checkZodSchema(req.body,
                      IF schema.hasBody THEN schema.body ELSE NoShape, FALSE)
  IN IF ~paramsResult.success THEN Rejected(1, paramsResult.error)
     ELSE IF ~headersResult.success THEN Rejected(2, headersResult.error)
     ELSE IF ~queryResult.success THEN Rejected(3, queryResult.error)
     ELSE IF ~bodyResult.success THEN Rejected(4, bodyResult.error)
     ELSE [rejected |-> FALSE, evaluated |-> ValidationSteps,
           paramsResult |-> paramsResult, headersResult |-> headersResult,
           queryResult |-> queryResult, bodyResult |-> bodyResult]

\* validateRequest(req, res, schema, options)
validateRequest(req, schema, options) ==
  LET paramsResult == checkZodSchema(req.params, schema.pathParams, TRUE)
      headersResult == checkZodSchema(req.headers, schema.headers, TRUE)
      query == IF options.jsonQuery THEN parseJsonQueryObject(req.query)
               ELSE req.query
      queryResult == checkZodSchema(query, schema.query, FALSE)
      bodyResult == checkZodSchema(req.body,
                      IF schema.hasBody THEN schema.body ELSE NoShape, FALSE)
  IN IF ~paramsResult.success THEN Rejected(1, paramsResult.error)
     ELSE IF ~headersResult.success THEN Rejected(2, headersResult.error)
     ELSE IF ~queryResult.success THEN Rejected(3, queryResult.error)
     ELSE IF ~bodyResult.success THEN Rejected(4, bodyResult.error)
     ELSE [rejected |-> FALSE, evaluated |-> ValidationSteps,
           paramsResult |-> paramsResult, headersResult |-> headersResult,
           queryResult |-> queryResult, bodyResult |-> bodyResult]

\* !('paramsResult' in validationResults): validation failed, the response
\* has been sent
ValidationFailed(validationResults) == validationResults.rejected

\* Number(result.status)
StatusNumbers == [s \in {"200", "201", "404"} |->
                    CASE s = "200" -> 200 [] s = "201" -> 201 [] s = "404" -> 404]
StatusNum(n) == [t |-> "number", n |-> n]
NumberOf(value) ==
  IF value.t = "number" THEN value.n ELSE StatusNumbers[value.v]

\* schema.responses[statusCode]
ResponseType(schema, statusCode) ==
  IF statusCode \in DOMAIN schema.responses
  THEN schema.responses[statusCode] ELSE NoShape

ResponseValidationError(error) ==
  [name |-> "ResponseValidationError", cause |-> error]

\* validateResponse({ responseType, response }): a declared shape the body
\* does not satisfy throws; without a declared shape the response is returned
\* as it is
validateResponse(responseType, response) ==
  IF responseType.declared
  THEN LET result == checkZodSchema(response.body, responseType, FALSE)
       IN IF result.success
          THEN [threw |-> FALSE, status |-> response.status, body |-> result.data]
          ELSE [threw |-> TRUE, error |-> ResponseValidationError(result.error)]
  ELSE [threw |-> FALSE, status |-> response.status, body |-> response.body]

\* what the main handler does once the awaited handler has settled: a JSON
\* response, or the error handed to next
Json(statusCode, body) == [via |-> "json", status |-> statusCode, body |-> body]
NextError(e) == [via |-> "next", error |-> e]

\* mutant: a handler failure is answered by the engine instead of forwarded
RespondToFailure(schema, options, outcome) ==
  IF outcome.threw THEN Json(500, outcome.error)
  ELSE Json(NumberOf(outcome.result.status), outcome.result.body)

\* mutant: the handler's body is sent without response validation
RespondUnvalidated(schema, options, outcome) ==
  IF outcome.threw THEN NextError(outcome.error)
  ELSE Json(NumberOf(outcome.result.status), outcome.result.body)

\* mutant: the handler's body is validated whatever options.responseValidation
\* says
RespondAlwaysValidated(schema, options, outcome) ==
  IF outcome.threw THEN NextError(outcome.error)
  ELSE LET statusCode == NumberOf(outcome.result.status)
           response ==
             validateResponse(ResponseType(schema, statusCode),
                              [status |-> statusCode,
                               body |-> outcome.result.body])
       IN IF response.threw THEN NextError(response.error)
          ELSE Json(statusCode, response.body)

\* the try block of mainReqHandler after `await handler(...)`, and its catch
Respond(schema, options, outcome) ==
  IF outcome.threw THEN NextError(outcome.error)
  ELSE LET statusCode == NumberOf(outcome.result.status) IN
       IF options.responseValidation
       THEN LET response ==
                  validateResponse(ResponseType(schema, statusCode),
                                   [status |-> statusCode,
                                    body |-> outcome.result.body])
            IN IF response.threw THEN NextError(response.error)
               ELSE Json(statusCode, response.body)
       ELSE Json(statusCode, outcome.result.body)

(***************************************************************************)
(* Inputs of createExpressEndpoints.                                       *)
(***************************************************************************)
StringShape(keys) == Shape([k \in keys |-> "string"])

\* a query route (no body property at all) whose query declares a boolean
GetPost ==
  Route("GET", "/posts/:id", StringShape({"id"}), NoShape,
        Shape([active |-> "boolean"]), FALSE, NoShape,
        [c \in {200} |-> StringShape({"name"})])
\* a mutation route declaring every shape
CreatePost ==
  Route("POST", "/posts", StringShape({"id"}), StringShape({"auth"}),
        StringShape({"q"}), TRUE, StringShape({"name"}),
        [c \in {201, 404} |-> IF c = 201 THEN StringShape({"name"})
                              ELSE StringShape({"message"})])
\* a route whose method is none of the five verbs
HeadPost ==
  Route("HEAD", "/head", NoShape, NoShape, NoShape, FALSE, NoShape,
        [c \in {200} |-> NoShape])

RouteSet == {GetPost, CreatePost, HeadPost}

\* routers of at most w keys whose entries are drawn from children
RoutersOver(keys, children, w) ==
  UNION {{Router(f) : f \in [ks -> children]} :
           ks \in {S \in SUBSET keys : Cardinality(S) <= w}}

SchemaTrees ==
  RoutersOver(TopKeys,
              RouteSet \cup RoutersOver(InnerKeys, RouteSet, MaxInnerWidth),
              MaxWidth)

\* the key sequences an object of at most w keys can enumerate
KeyOrders(keys, w) ==
  {ks \in UNION {[1..n -> keys] : n \in 0..w} :
     \A i, j \in 1..Len(ks) : i # j => ks[i] # ks[j]}

ObjectsOver(keys, children, w) ==
  UNION {{Obj([i \in 1..Len(ks) |-> Prop(ks[i], vs[i])]) :
            vs \in [1..Len(ks) -> children]} : ks \in KeyOrders(keys, w)}

\* a bare handler, and an options object { handler, middleware }
ImplLeaves ==
  {Fn("h1"),
   Obj(<<Prop("handler", Fn("h2")), Prop("middleware", Arr(<<"m1">>))>>)}

ImplTrees ==
  ObjectsOver(TopKeys,
              ImplLeaves \cup ObjectsOver(InnerKeys, ImplLeaves, MaxInnerWidth),
              MaxWidth)

ContextFunctions == {Undefined, Fn("ctx")}
GlobalMiddlewares == {Undefined, Arr(<<"g1">>)}

Options(jsonQuery, responseValidation, globalMiddleware) ==
  [jsonQuery |-> jsonQuery, responseValidation |-> responseValidation,
   globalMiddleware |-> globalMiddleware]

\* the default options, with or without global middleware
StartupOptions == {Options(FALSE, FALSE, g) : g \in GlobalMiddlewares}

(***************************************************************************)
(* Inputs of the requests.                                                 *)
(***************************************************************************)
Requests == {"r1", "r2"}

ParamsSet == {[id |-> Str("7")], [id |-> Str("7"), extra |-> Str("x")], EmptyMap}
HeadersSet ==
  {[auth |-> Str("token")], [auth |-> Str("token"), host |-> Str("h")],
   EmptyMap}
QuerySet ==
  {[q |-> Str("s")], [q |-> Str("1")], [active |-> Str("true")], EmptyMap}
BodySet == {[name |-> Str("n")], [extra |-> Str("1")]}

RequestData(params, headers, query, body) ==
  [params |-> params, headers |-> headers, query |-> query, body |-> body]

\* what the first request may carry, and the one request that may be in
\* flight beside it
RequestInputs(r) ==
  IF r = "r1"
  THEN {RequestData(p, h, q, b) :
          p \in ParamsSet, h \in HeadersSet, q \in QuerySet, b \in BodySet}
  ELSE {RequestData([id |-> Str("8")], EmptyMap, [active |-> Str("true")],
                    EmptyMap)}

\* how the awaited route implementation settles
HandlerResults ==
  {[status |-> st, body |-> b] :
     st \in {StatusNum(200), StatusNum(201), Str("201"), StatusNum(404)},
     b \in {[name |-> Str("n")], [extra |-> Str("1")]}}
HandlerError == [name |-> "HandlerError"]
HandlerOutcomes ==
  {[threw |-> FALSE, result |-> res] : res \in HandlerResults}
  \cup {[threw |-> TRUE, error |-> HandlerError]}

\* mutant: the context function is called with one shared request
ContextOfSharedRequest(r, route) ==
  [t |-> "context", request |-> "r1", route |-> route.path]

\* the value the context function resolves to for a request and its route
ContextOf(r, route) == [t |-> "context", request |-> r, route |-> route.path]

(***************************************************************************)
(* State.                                                                  *)
(***************************************************************************)
VARIABLES
  contract,   \* the schema tree handed to createExpressEndpoints
  impl,       \* the implementation tree handed to createExpressEndpoints
  app,        \* the external router: its registrations, in order
  started,    \* createExpressEndpoints has been called
  args,       \* the options and context function of that call
  processed,  \* the processRoute invocations of the walk, in order
  error,      \* the error createExpressEndpoints threw, or NoError
  pc,         \* per request: where its handler chain stands
  matched,    \* per request: the registration the host router matched
  idx,        \* per request: the handler of the chain that runs next
  req,        \* per request: the request object (data and req.tsRest)
  res,        \* per request: the responses written, in order
  forwarded,  \* per request: the errors handed to next(e), in order
  handlerArgs,\* per request: the arguments the route implementation got
  settled,    \* per request: how the awaited route implementation settled
  trace       \* per request: what ran, in order

startupVars == <<contract, impl, app, started, args, processed, error>>
requestVars ==
  <<pc, matched, idx, req, res, forwarded, handlerArgs, settled, trace>>
vars == <<contract, impl, app, started, args, processed, error,
          pc, matched, idx, req, res, forwarded, handlerArgs, settled, trace>>

NoArgs ==
  [options |-> Options(FALSE, FALSE, Undefined), contextFunction |-> Undefined]

NoRequest == [data |-> RequestData(EmptyMap, EmptyMap, EmptyMap, EmptyMap),
              tsRest |-> Undefined]

InitRequests ==
  /\ pc = [r \in Requests |-> "idle"]
  /\ matched = [r \in Requests |-> 0]
  /\ idx = [r \in Requests |-> 0]
  /\ req = [r \in Requests |-> NoRequest]
  /\ res = [r \in Requests |-> << >>]
  /\ forwarded = [r \in Requests |-> << >>]
  /\ handlerArgs = [r \in Requests |-> << >>]
  /\ settled = [r \in Requests |-> << >>]
  /\ trace = [r \in Requests |-> << >>]

\* the contract and the implementation tree are built before the call
InitStartup ==
  /\ contract \in SchemaTrees
  /\ impl \in ImplTrees
  /\ app = << >>
  /\ started = FALSE
  /\ args = NoArgs
  /\ processed = << >>
  /\ error = NoError
  /\ InitRequests

\* createExpressEndpoints(schema, router, app, options)
createExpressEndpoints(options, contextFunction) ==
  /\ ~started
  /\ started' = TRUE
  /\ args' = [options |-> options, contextFunction |-> contextFunction]
  /\ LET out == EndpointsOutcome(contract, impl, app, options, contextFunction)
     IN /\ app' = out.routes
        /\ processed' = out.calls
        /\ error' = out.err
  /\ UNCHANGED <<contract, impl>>
  /\ UNCHANGED requestVars

Startup ==
  \E options \in StartupOptions, contextFunction \in ContextFunctions :
    createExpressEndpoints(options, contextFunction)

SpecStartup == InitStartup /\ [][Startup]_vars

(***************************************************************************)
(* The handler chain of one request.                                       *)
(***************************************************************************)
Chain(r) == app[matched[r]].handlers
Current(r) == Chain(r)[idx[r]]

\* req.tsRest = { route, context }
TsRest(route, context) == [t |-> "object", route |-> route, context |-> context]

\* mutant: the chain goes on before the route and context are attached
ContinueUnattached(request, route, context) == request

\* contextMiddleware: req.tsRest = { route, context }, before next()
Attach(request, route, context) ==
  [request EXCEPT !.tsRest = TsRest(route, context)]

\* the host router matches a request to a registration and calls the first
\* handler of its chain, contextMiddleware: with a context function the
\* handler suspends on it; without one it attaches the undefined context
\* and calls next()
contextMiddleware(r, i, data) ==
  /\ started
  /\ pc[r] = "idle"
  /\ i \in 1..Len(app)
  /\ matched' = [matched EXCEPT ![r] = i]
  /\ LET first == app[i].handlers[1] IN
       IF Truthy(first.contextFunction)
       THEN /\ req' = [req EXCEPT ![r] = [data |-> data, tsRest |-> Undefined]]
            /\ pc' = [pc EXCEPT ![r] = "contextAwait"]
            /\ idx' = [idx EXCEPT ![r] = 1]
            /\ trace' = [trace EXCEPT ![r] = Append(@, "contextFunction")]
       ELSE /\ req' = [req EXCEPT ![r] =
                         Attach([data |-> data, tsRest |-> Undefined],
                                first.route, Undefined)]
            /\ pc' = [pc EXCEPT ![r] = "chain"]
            /\ idx' = [idx EXCEPT ![r] = 2]
            /\ trace' = [trace EXCEPT ![r] = Append(@, "attach")]
  /\ UNCHANGED <<res, forwarded, handlerArgs, settled>>
  /\ UNCHANGED startupVars

\* `await contextFunction({ req, route })` resolves: attach, then next()
contextResolves(r) ==
  /\ pc[r] = "contextAwait"
  /\ req' = [req EXCEPT ![r] =
               Attach(@, Current(r).route, ContextOf(r, Current(r).route))]
  /\ pc' = [pc EXCEPT ![r] = "chain"]
  /\ idx' = [idx EXCEPT ![r] = 2]
  /\ trace' = [trace EXCEPT ![r] = Append(@, "attach")]
  /\ UNCHANGED <<matched, res, forwarded, handlerArgs, settled>>
  /\ UNCHANGED startupVars

\* the context function throws or rejects: the promise of the async closure
\* rejects, nothing is attached and next is never called
contextRejects(r) ==
  /\ pc[r] = "contextAwait"
  /\ pc' = [pc EXCEPT ![r] = "abandoned"]
  /\ UNCHANGED <<matched, idx, req, res, forwarded, handlerArgs, settled,
                 trace>>
  /\ UNCHANGED startupVars

\* a global or per-route middleware runs and calls next()
middleware(r) ==
  /\ pc[r] = "chain"
  /\ Current(r).kind = "middleware"
  /\ idx' = [idx EXCEPT ![r] = @ + 1]
  /\ trace' = [trace EXCEPT ![r] = Append(@, "middleware")]
  /\ UNCHANGED <<pc, matched, req, res, forwarded, handlerArgs, settled>>
  /\ UNCHANGED startupVars

\* the object the route implementation is called with
HandlerArguments(validationResults, request) ==
  [params |-> validationResults.paramsResult.data,
   body |-> validationResults.bodyResult.data,
   query |-> validationResults.queryResult.data,
   headers |-> validationResults.headersResult.data,
   tsRest |-> request.tsRest]

\* mutant: the route implementation is called whatever validateRequest says
NeverReturnsEarly(validationResults) == FALSE

\* mainReqHandler returns the 400 response when validation failed
ReturnsEarly(validationResults) == ValidationFailed(validationResults)

\* mainReqHandler up to `await handler(...)`: validateRequest, then either
\* the 400 response or the call of the route implementation
mainReqHandler(r) ==
  /\ pc[r] = "chain"
  /\ Current(r).kind = "mainReqHandler"
  /\ LET validationResults ==
           validateRequest(req[r].data, Current(r).schema, args.options)
         sent == IF ValidationFailed(validationResults)
                 THEN <<[via |-> "send", status |-> validationResults.status,
                         body |-> validationResults.body]>>
                 ELSE << >>
     IN /\ res' = [res EXCEPT ![r] = @ \o sent]
        /\ IF ReturnsEarly(validationResults)
           THEN /\ pc' = [pc EXCEPT ![r] = "done"]
                /\ trace' = [trace EXCEPT ![r] =
                               @ \o validationResults.evaluated \o <<"send">>]
                /\ UNCHANGED handlerArgs
           ELSE /\ pc' = [pc EXCEPT ![r] = "handlerAwait"]
                /\ trace' = [trace EXCEPT ![r] =
                               @ \o validationResults.evaluated
                                 \o <<"handler">>]
                /\ handlerArgs' =
                     [handlerArgs EXCEPT ![r] =
                        Append(@, IF ValidationFailed(validationResults)
                                  THEN [tsRest |-> req[r].tsRest]
                                  ELSE HandlerArguments(validationResults,
                                                        req[r]))]
  /\ UNCHANGED <<matched, idx, req, forwarded, settled>>
  /\ UNCHANGED startupVars

\* mutant: next is called with the failure after the response was sent too
SettlesAndForwards(r, outcome) ==
  /\ pc[r] = "handlerAwait"
  /\ LET end == Respond(Current(r).schema, args.options, outcome) IN
       IF end.via = "next"
       THEN /\ forwarded' = [forwarded EXCEPT ![r] = Append(@, end.error)]
            /\ trace' = [trace EXCEPT ![r] = Append(@, "next")]
            /\ UNCHANGED res
       ELSE /\ res' = [res EXCEPT ![r] = Append(@, end)]
            /\ trace' = [trace EXCEPT ![r] = @ \o <<"json", "next">>]
            /\ forwarded' = [forwarded EXCEPT ![r] = Append(@, HandlerError)]
  /\ pc' = [pc EXCEPT ![r] = "done"]
  /\ settled' = [settled EXCEPT ![r] = Append(@, outcome)]
  /\ UNCHANGED <<matched, idx, req, handlerArgs>>
  /\ UNCHANGED startupVars

\* the awaited route implementation settles: the response is sent, or the
\* error is handed to next
handlerSettles(r, outcome) ==
  /\ pc[r] = "handlerAwait"
  /\ LET end == Respond(Current(r).schema, args.options, outcome) IN
       IF end.via = "next"
       THEN /\ forwarded' = [forwarded EXCEPT ![r] = Append(@, end.error)]
            /\ trace' = [trace EXCEPT ![r] = Append(@, "next")]
            /\ UNCHANGED res
       ELSE /\ res' = [res EXCEPT ![r] = Append(@, end)]
            /\ trace' = [trace EXCEPT ![r] = Append(@, "json")]
            /\ UNCHANGED forwarded
  /\ pc' = [pc EXCEPT ![r] = "done"]
  /\ settled' = [settled EXCEPT ![r] = Append(@, outcome)]
  /\ UNCHANGED <<matched, idx, req, handlerArgs>>
  /\ UNCHANGED startupVars

(***************************************************************************)
(* A served application: a contract of two routes, its implementation,     *)
(* the call of createExpressEndpoints and the requests that follow.        *)
(***************************************************************************)
ServedContract == Router([k \in TopKeys |-> IF k = "a" THEN GetPost
                                             ELSE CreatePost])
ServedImpl ==
  Obj(<<Prop("a", Fn("h1")),
        Prop("b", Obj(<<Prop("handler", Fn("h2")),
                        Prop("middleware", Arr(<<"m1">>))>>))>>)

ServedOptions ==
  {Options(j, v, g) : j \in BOOLEAN, v \in BOOLEAN, g \in GlobalMiddlewares}

Init ==
  /\ contract = ServedContract
  /\ impl = ServedImpl
  /\ app = << >>
  /\ started = FALSE
  /\ args = NoArgs
  /\ processed = << >>
  /\ error = NoError
  /\ InitRequests

Configure ==
  \E options \in ServedOptions, contextFunction \in ContextFunctions :
    createExpressEndpoints(options, contextFunction)

Serve ==
  \E r \in Requests :
    \/ \E i \in 1..Len(app), data \in RequestInputs(r) :
         contextMiddleware(r, i, data)
    \/ contextResolves(r)
    \/ contextRejects(r)
    \/ middleware(r)
    \/ mainReqHandler(r)
    \/ \E outcome \in HandlerOutcomes : handlerSettles(r, outcome)

Next == Configure \/ Serve

Spec == Init /\ [][Next]_vars

(***************************************************************************)
(* Shapes of the two trees, by the data model: a Route is implemented by a *)
(* callable or by an options object { handler, middleware? }; a Router by  *)
(* an object with the same keys.                                           *)
(***************************************************************************)
KeysOf(x) == {Entries(x)[i].k : i \in 1..Len(Entries(x))}

IsOptionsObject(x) ==
  /\ x.t = "object"
  /\ IsFunction(Get(x, "handler"))
  /\ KeysOf(x) \subseteq {"handler", "middleware"}

IsRouteImplementation(x) == IsFunction(x) \/ IsOptionsObject(x)

RECURSIVE IdenticalShape(_, _)
IdenticalShape(schema, router) ==
  IF schema.tag = "route" THEN IsRouteImplementation(router)
  ELSE /\ schema.tag = "router"
       /\ router.t = "object"
       /\ KeysOf(router) = DOMAIN schema.kids
       /\ \A i \in 1..Len(router.props) :
            IdenticalShape(schema.kids[router.props[i].k], router.props[i].v)

\* every route of the tree declares one of the five verbs
RECURSIVE ValidSchema(_)
ValidSchema(schema) ==
  IF schema.tag = "route" THEN schema.method \in SupportedMethods
  ELSE \A k \in DOMAIN schema.kids : ValidSchema(schema.kids[k])

\* the leaves of a pair of identical shape, depth-first in the
\* implementation tree's key enumeration order
RECURSIVE LeavesInOrder(_, _)
RECURSIVE LeavesFrom(_, _, _)
LeavesFrom(schema, router, i) ==
  IF i > Len(router.props) THEN << >>
  ELSE LeavesInOrder(schema.kids[router.props[i].k], router.props[i].v)
       \o LeavesFrom(schema, router, i + 1)
LeavesInOrder(schema, router) ==
  IF schema.tag = "route"
  THEN <<[implementation |-> router, schema |-> schema]>>
  ELSE LeavesFrom(schema, router, 1)

\* a leaf in one tree faces a sub-tree (a router with at least one entry)
\* in the other at some key path
RECURSIVE ShapeMismatch(_, _)
ShapeMismatch(schema, router) ==
  \/ /\ schema.tag = "route"
     /\ router.t = "object"
     /\ ~IsRouteImplementation(router)
     /\ router.props # << >>
  \/ /\ schema.tag = "router"
     /\ \/ IsFunction(router)
        \/ IsOptionsObject(router) /\ "handler" \notin DOMAIN schema.kids
  \/ /\ schema.tag = "router"
     /\ router.t = "object"
     /\ \E i \in 1..Len(router.props) :
          /\ router.props[i].k \in DOMAIN schema.kids
          /\ ShapeMismatch(schema.kids[router.props[i].k], router.props[i].v)

\* every key the implementation tree enumerates is a key of the schema tree
RECURSIVE WithinSchema(_, _)
WithinSchema(schema, router) ==
  (schema.tag = "router" /\ router.t = "object"
     /\ ~(IsOptionsObject(router) /\ "handler" \notin DOMAIN schema.kids)) =>
    /\ KeysOf(router) \subseteq DOMAIN schema.kids
    /\ \A i \in 1..Len(router.props) :
         WithinSchema(schema.kids[router.props[i].k], router.props[i].v)

StructuralMismatch == {ExpectedRouterError, ExpectedRouteError}

(***************************************************************************)
(* C1: for every valid pair of identical shape, createExpressEndpoints     *)
(* completes without error and registers exactly one handler chain per     *)
(* leaf route, in the implementation tree's depth-first key order.         *)
(***************************************************************************)
C1_RegistersEveryLeafInOrder ==
  (started /\ ValidSchema(contract) /\ IdenticalShape(contract, impl)) =>
    LET leaves == LeavesInOrder(contract, impl) IN
      /\ error = NoError
      /\ Len(app) = Len(leaves)
      /\ \A i \in 1..Len(leaves) :
           /\ app[i].path = leaves[i].schema.path
           /\ app[i].handlers[Len(app[i].handlers)] =
                MainReqHandlerOf(HandlerOf(leaves[i].implementation),
                                 leaves[i].schema)

(***************************************************************************)
(* C2: for every pair in which a leaf faces a sub-tree at the same key     *)
(* path, createExpressEndpoints fails with a StructuralMismatch error and  *)
(* nothing has been registered on the router.  The pairs taken are those   *)
(* whose implementation keys are all schema keys and whose offending       *)
(* sub-tree has at least one entry, so that the walk reaches the mismatch  *)
(* and raises the error.                                                   *)
(***************************************************************************)
C2_MismatchRegistersNothing ==
  (started /\ WithinSchema(contract, impl) /\ ShapeMismatch(contract, impl)) =>
    (error \in StructuralMismatch /\ app = << >>)


(***************************************************************************)
(* C8: for every leaf route, the chain registered on the router is exactly *)
(* [contextMiddleware, ...globalMiddleware, ...perRouteMiddleware,         *)
(* mainHandler], registered with the call of the route's declared method   *)
(* and with the route's declared path unchanged.                           *)
(***************************************************************************)
MethodCall ==
  [m \in SupportedMethods |->
     CASE m = "GET" -> "get" [] m = "POST" -> "post" [] m = "PUT" -> "put"
       [] m = "PATCH" -> "patch" [] m = "DELETE" -> "delete"]

NamedMiddleware(value) ==
  IF value = Undefined THEN << >>
  ELSE [i \in 1..Len(value.items) |->
          [kind |-> "middleware", name |-> value.items[i]]]

ExpectedChain(leaf) ==
  <<[kind |-> "contextMiddleware", contextFunction |-> args.contextFunction,
     route |-> leaf.schema]>>
  \o NamedMiddleware(args.options.globalMiddleware)
  \o (IF IsFunction(leaf.implementation) THEN << >>
      ELSE NamedMiddleware(Get(leaf.implementation, "middleware")))
  \o <<[kind |-> "mainReqHandler",
        handler |-> (IF IsFunction(leaf.implementation)
                     THEN leaf.implementation
                     ELSE Get(leaf.implementation, "handler")),
        schema |-> leaf.schema]>>

HasSupportedMethod(leaf) == leaf.schema.method \in SupportedMethods

C8_ChainAndRegistration ==
  started =>
    LET leaves == SelectSeq(processed, HasSupportedMethod) IN
      /\ Len(app) = Len(leaves)
      /\ \A i \in 1..Len(leaves) :
           /\ app[i].call = MethodCall[leaves[i].schema.method]
           /\ app[i].path = leaves[i].schema.path
           /\ app[i].handlers = ExpectedChain(leaves[i])

\* a POST route registered with context, global and per-route middleware
C8_Witness ==
  /\ started
  /\ \E i \in 1..Len(app) :
       /\ app[i].call = "post"
       /\ Len(app[i].handlers) = 4
       /\ app[i].handlers[2].name = "g1"
       /\ app[i].handlers[3].name = "m1"


(***************************************************************************)
(* Vocabulary of the request claims.                                       *)
(***************************************************************************)
\* the route the host router matched for request r
RouteOf(r) == app[matched[r]].handlers[1].route

\* the main handler has run for request r
MainHandlerRan(r) == pc[r] \in {"handlerAwait", "done"}

Count(e, seq) == Cardinality({i \in 1..Len(seq) : seq[i] = e})
Occurs(e, seq) == \E i \in 1..Len(seq) : seq[i] = e
IsValidationStep(e) == \E k \in 1..4 : ValidationSteps[k] = e
Evaluated(r) == SelectSeq(trace[r], IsValidationStep)

\* the outcome of validation step k on the raw data of request r
StepOutcome(r, k) ==
  CASE k = 1 -> checkZodSchema(req[r].data.params, RouteOf(r).pathParams, TRUE)
    [] k = 2 -> checkZodSchema(req[r].data.headers, RouteOf(r).headers, TRUE)
    [] k = 3 -> checkZodSchema(IF args.options.jsonQuery
                               THEN parseJsonQueryObject(req[r].data.query)
                               ELSE req[r].data.query,
                               RouteOf(r).query, FALSE)
    [] k = 4 -> checkZodSchema(req[r].data.body,
                               IF RouteOf(r).hasBody THEN RouteOf(r).body
                               ELSE NoShape, FALSE)

FailingSteps(r) == {k \in 1..4 : ~StepOutcome(r, k).success}
\* the earliest failing step; 0 when every step succeeds
FirstFailing(r) ==
  IF FailingSteps(r) = {} THEN 0
  ELSE CHOOSE k \in FailingSteps(r) : \A j \in FailingSteps(r) : k <= j

BadRequest(detail) == [via |-> "send", status |-> 400, body |-> detail]

(***************************************************************************)
(* C3: validateRequest evaluates path params, headers, query, body in that *)
(* order; at the first failing step it sends 400 with that step's raw      *)
(* validator error and evaluates no later step, so the error reported is   *)
(* the earliest failing step's and at most one 400 response is sent.       *)
(***************************************************************************)
C3_ShortCircuitInOrder ==
  \A r \in Requests :
    MainHandlerRan(r) =>
      IF FirstFailing(r) = 0
      THEN /\ Evaluated(r) = ValidationSteps
           /\ \A i \in 1..Len(res[r]) : res[r][i].via # "send"
      ELSE /\ Evaluated(r) = SubSeq(ValidationSteps, 1, FirstFailing(r))
           /\ res[r] = <<BadRequest(StepOutcome(r, FirstFailing(r)).error)>>

\* a request whose query and body both fail was answered with the query error
C3_Witness ==
  \E r \in Requests :
    /\ pc[r] = "done"
    /\ FailingSteps(r) = {3, 4}
    /\ res[r] = <<BadRequest(StepOutcome(r, 3).error)>>
    /\ Evaluated(r) = <<"pathParams", "headers", "query">>

(***************************************************************************)
(* C4: for every request in which any of the four validation steps fails,  *)
(* the route's handler implementation is never invoked and the response    *)
(* status is 400.                                                          *)
(***************************************************************************)
C4_FailedValidationSkipsHandler ==
  \A r \in Requests :
    (MainHandlerRan(r) /\ FirstFailing(r) # 0) =>
      /\ handlerArgs[r] = << >>
      /\ ~Occurs("handler", trace[r])
      /\ Len(res[r]) = 1
      /\ res[r][1].status = 400

\* a POST whose body lacks the declared field was answered 400
C4_Witness ==
  \E r \in Requests :
    /\ pc[r] = "done"
    /\ RouteOf(r) = CreatePost
    /\ FirstFailing(r) = 4
    /\ res[r][1].status = 400
    /\ handlerArgs[r] = << >>

(***************************************************************************)
(* C5 as claimed: middleware is invoked for a request only after all four  *)
(* validation steps have succeeded for it; for a request that fails        *)
(* validation no middleware is invoked.                                    *)
(***************************************************************************)
C5_MiddlewareAfterValidation ==
  \A r \in Requests :
    \A i \in 1..Len(trace[r]) :
      trace[r][i] = "middleware" =>
        /\ \E j \in 1..(i - 1) : trace[r][j] = "body"
        /\ FirstFailing(r) = 0

(***************************************************************************)
(* C5 as amended: every global and per-route middleware of the chain is    *)
(* invoked before the main handler validates the request, whether          *)
(* validation then succeeds or fails; only the route implementation is     *)
(* invoked after all four validation steps have succeeded.                 *)
(***************************************************************************)
C5_MiddlewareBeforeValidation ==
  \A r \in Requests :
    /\ \A i, j \in 1..Len(trace[r]) :
         (trace[r][i] = "middleware" /\ IsValidationStep(trace[r][j])) => i < j
    /\ MainHandlerRan(r) =>
         Count("middleware", trace[r]) = Len(Chain(r)) - 2
    /\ \A i \in 1..Len(trace[r]) :
         trace[r][i] = "handler" =>
           /\ FirstFailing(r) = 0
           /\ SubSeq(trace[r], i - 4, i - 1) = ValidationSteps

\* a request that failed validation after both middleware of its chain ran
C5_Witness ==
  \E r \in Requests :
    /\ pc[r] = "done"
    /\ FirstFailing(r) # 0
    /\ Count("middleware", trace[r]) = 2
    /\ res[r][1].status = 400

(***************************************************************************)
(* C6: the context function, when declared, is invoked exactly once per    *)
(* request and the value it resolved to is the context the main handler    *)
(* sees on req.tsRest; without a context function the field still exists,  *)
(* holding the matched route and undefined.                                *)
(***************************************************************************)
C6_ContextSeenByMainHandler ==
  \A r \in Requests :
    /\ pc[r] # "idle" =>
         Count("contextFunction", trace[r]) =
           IF Truthy(args.contextFunction) THEN 1 ELSE 0
    /\ MainHandlerRan(r) =>
         req[r].tsRest =
           [t |-> "object", route |-> RouteOf(r),
            context |-> IF Truthy(args.contextFunction)
                        THEN ContextOf(r, RouteOf(r)) ELSE Undefined]
    /\ \A i \in 1..Len(handlerArgs[r]) :
         handlerArgs[r][i].tsRest = req[r].tsRest

\* the route implementation was called with the resolved context
C6_Witness ==
  \E r \in Requests :
    /\ Truthy(args.contextFunction)
    /\ Len(handlerArgs[r]) = 1
    /\ handlerArgs[r][1].tsRest.context = ContextOf(r, RouteOf(r))

(***************************************************************************)
(* C7: the route and context are attached to the request before any other  *)
(* handler of the chain runs, and they are on the request whenever a 400   *)
(* validation-failure response is sent.                                    *)
(***************************************************************************)
C7_AttachedBeforeChain ==
  \A r \in Requests :
    /\ \A i \in 1..Len(trace[r]) :
         trace[r][i] \notin {"contextFunction", "attach"} =>
           /\ \E j \in 1..(i - 1) : trace[r][j] = "attach"
           /\ req[r].tsRest.t = "object"
    /\ (\E i \in 1..Len(res[r]) : res[r][i].status = 400) =>
         /\ req[r].tsRest.t = "object"
         /\ req[r].tsRest.route = RouteOf(r)

\* a 400 was sent for a request that carries the resolved context
C7_Witness ==
  \E r \in Requests :
    /\ res[r] # << >>
    /\ res[r][1].status = 400
    /\ req[r].tsRest.t = "object"
    /\ req[r].tsRest.context = ContextOf(r, RouteOf(r))

(***************************************************************************)
(* C9: when the route implementation throws or rejects, the main handler   *)
(* forwards that same error to next and the engine writes no status or     *)
(* body to the response.                                                   *)
(***************************************************************************)
C9_HandlerFailureForwarded ==
  \A r \in Requests :
    (settled[r] # << >> /\ settled[r][1].threw) =>
      /\ forwarded[r] = <<settled[r][1].error>>
      /\ res[r] = << >>

C9_Witness ==
  \E r \in Requests :
    /\ pc[r] = "done"
    /\ settled[r] = <<[threw |-> TRUE, error |-> HandlerError]>>
    /\ forwarded[r] = <<HandlerError>>

(***************************************************************************)
(* C10: with responseValidation enabled, when the handler returns a status *)
(* with a declared response shape and a body that does not satisfy the     *)
(* shape declared for exactly that status, the request fails response      *)
(* validation and the handler's body is never sent.                        *)
(***************************************************************************)
ReturnedStatus(r) == NumberOf(settled[r][1].result.status)

MalformedResponse(r) ==
  /\ settled[r] # << >>
  /\ ~settled[r][1].threw
  /\ ReturnedStatus(r) \in DOMAIN RouteOf(r).responses
  /\ RouteOf(r).responses[ReturnedStatus(r)].declared
  /\ \E k \in DOMAIN RouteOf(r).responses[ReturnedStatus(r)].fields :
       \/ k \notin DOMAIN settled[r][1].result.body
       \/ settled[r][1].result.body[k].t #
            RouteOf(r).responses[ReturnedStatus(r)].fields[k]

C10_MalformedBodyNotSent ==
  \A r \in Requests :
    (args.options.responseValidation /\ MalformedResponse(r)) =>
      /\ res[r] = << >>
      /\ Len(forwarded[r]) = 1
      /\ forwarded[r][1].name = "ResponseValidationError"

\* a 404 returned with the body of the 201 shape was refused
C10_Witness ==
  \E r \in Requests :
    /\ args.options.responseValidation
    /\ MalformedResponse(r)
    /\ ReturnedStatus(r) = 404
    /\ settled[r][1].result.body = [name |-> Str("n")]
    /\ res[r] = << >>

(***************************************************************************)
(* C11: with response validation enabled, a status the route declares no   *)
(* response shape for is not sent with the body of the route                *)
(* implementation as an ordinary success response.                          *)
(***************************************************************************)
UndeclaredStatus(r) ==
  /\ settled[r] # << >>
  /\ ~settled[r][1].threw
  /\ ReturnedStatus(r) \notin DOMAIN RouteOf(r).responses

C11_UndeclaredStatusNotSent ==
  \A r \in Requests :
    (args.options.responseValidation /\ UndeclaredStatus(r)) =>
      \A i \in 1..Len(res[r]) :
        res[r][i] # Json(ReturnedStatus(r), settled[r][1].result.body)

(***************************************************************************)
(* C12: a leaf route whose method is none of GET, POST, PUT, PATCH and     *)
(* DELETE makes createExpressEndpoints fail with an error; it is never     *)
(* accepted silently with no chain registered for it.                      *)
(***************************************************************************)
C12_UnsupportedMethodRejected ==
  started =>
    \A i \in 1..Len(processed) :
      processed[i].schema.method \notin SupportedMethods => error # NoError

(***************************************************************************)
(* C13: path parameters and headers tolerate extra undeclared keys: when   *)
(* the declared path parameters (headers) of a request satisfy the shape,  *)
(* keys the shape does not declare do not fail that step, and the parsed   *)
(* parameters (headers) handed to the route implementation hold every      *)
(* declared key with the value the request carried.                        *)
(***************************************************************************)
Satisfies(data, shape) ==
  shape.declared =>
    \A k \in DOMAIN shape.fields :
      k \in DOMAIN data /\ data[k].t = shape.fields[k]

DeclaredKeys(shape) == IF shape.declared THEN DOMAIN shape.fields ELSE {}

C13_ExtraKeysTolerated ==
  \A r \in Requests :
    MainHandlerRan(r) =>
      LET data == req[r].data
          route == RouteOf(r)
      IN /\ Satisfies(data.params, route.pathParams) => Len(Evaluated(r)) >= 2
         /\ (Satisfies(data.params, route.pathParams)
               /\ Satisfies(data.headers, route.headers)) =>
              Len(Evaluated(r)) >= 3
         /\ \A i \in 1..Len(handlerArgs[r]) :
              /\ \A k \in DeclaredKeys(route.pathParams) :
                   /\ k \in DOMAIN handlerArgs[r][i].params
                   /\ handlerArgs[r][i].params[k] = data.params[k]
              /\ \A k \in DeclaredKeys(route.headers) :
                   /\ k \in DOMAIN handlerArgs[r][i].headers
                   /\ handlerArgs[r][i].headers[k] = data.headers[k]

\* a request with an undeclared path parameter and an undeclared header
\* reached the route implementation with its declared ones
C13_Witness ==
  \E r \in Requests :
    /\ handlerArgs[r] # << >>
    /\ RouteOf(r).headers.declared
    /\ "extra" \in DOMAIN req[r].data.params
    /\ "host" \in DOMAIN req[r].data.headers
    /\ handlerArgs[r][1].params.id = Str("7")
    /\ handlerArgs[r][1].headers.auth = Str("token")

(***************************************************************************)
(* C14: with jsonQuery enabled, the value checked against the query shape  *)
(* and handed to the route implementation as its query is the request's    *)
(* query with every value JSON-decoded, a value that is not valid JSON     *)
(* being kept as the raw string; with jsonQuery disabled it is the raw     *)
(* query unchanged.                                                        *)
(***************************************************************************)
QueryChecked(r) ==
  IF args.options.jsonQuery THEN parseJsonQueryObject(req[r].data.query)
  ELSE req[r].data.query

C14_QueryDecodedWhenJsonQuery ==
  \A r \in Requests :
    (MainHandlerRan(r) /\ Len(Evaluated(r)) >= 3) =>
      LET verdict == checkZodSchema(QueryChecked(r), RouteOf(r).query, FALSE)
      IN /\ Len(Evaluated(r)) = 3 <=> ~verdict.success
         /\ ~verdict.success => res[r] = <<BadRequest(verdict.error)>>
         /\ \A i \in 1..Len(handlerArgs[r]) :
              handlerArgs[r][i].query = QueryChecked(r)

\* with jsonQuery enabled: "true" reached one route implementation as a
\* boolean, the string "s" reached another unchanged, and "1" was refused
\* as a number by a shape declaring a string
C14_Witness ==
  /\ args.options.jsonQuery
  /\ handlerArgs["r2"] # << >>
  /\ req["r2"].data.query.active = Str("true")
  /\ handlerArgs["r2"][1].query.active = Bool("true")
  /\ \/ /\ handlerArgs["r1"] # << >>
        /\ handlerArgs["r1"][1].query = [q |-> Str("s")]
     \/ /\ req["r1"].data.query = [q |-> Str("1")]
        /\ Evaluated("r1") = <<"pathParams", "headers", "query">>
        /\ RouteOf("r1").query = StringShape({"q"})

(***************************************************************************)
(* C15: under any interleaving of concurrent requests, the route and       *)
(* context the main handler of a request sees are the ones computed from   *)
(* that request and the route it matched, and a step taken for one request *)
(* changes neither the request object nor the handler arguments of         *)
(* another.                                                                *)
(***************************************************************************)
OwnTsRest(r) ==
  [t |-> "object", route |-> RouteOf(r),
   context |-> IF Truthy(args.contextFunction)
               THEN [t |-> "context", request |-> r,
                     route |-> RouteOf(r).path]
               ELSE Undefined]

SeesOwnContext ==
  \A r \in Requests :
    /\ MainHandlerRan(r) => req[r].tsRest = OwnTsRest(r)
    /\ \A i \in 1..Len(handlerArgs[r]) : handlerArgs[r][i].tsRest = OwnTsRest(r)

TouchesOwnRequestOnly ==
  \A r \in Requests :
    (req'[r] # req[r] \/ handlerArgs'[r] # handlerArgs[r]) =>
      /\ pc'[r] # pc[r]
      /\ \A o \in Requests \ {r} :
           req'[o] = req[o] /\ handlerArgs'[o] = handlerArgs[o]

C15_ContextIsolatedPerRequest ==
  []SeesOwnContext /\ [][TouchesOwnRequestOnly]_vars

\* the second request ran its route implementation with its own context
\* while the first, matched to another route, was still suspended in its
\* context function
C15_Witness ==
  /\ Truthy(args.contextFunction)
  /\ pc["r1"] = "contextAwait"
  /\ matched["r1"] # matched["r2"]
  /\ handlerArgs["r2"] # << >>
  /\ handlerArgs["r2"][1].tsRest.context =
       [t |-> "context", request |-> "r2", route |-> RouteOf("r2").path]
  /\ handlerArgs["r2"][1].tsRest.route = RouteOf("r2")

(***************************************************************************)
(* C16: when the walker meets an implementation node that is a container   *)
(* (an object whose `handler` is not callable, an object with no keys      *)
(* included) where the schema node is a leaf Route, createExpressEndpoints *)
(* fails with a StructuralMismatch error; the node is never skipped        *)
(* silently.                                                               *)
(***************************************************************************)
IsContainer(router) == router.t = "object" /\ ~IsFunction(Get(router, "handler"))

RECURSIVE ContainerFacesRoute(_, _)
ContainerFacesRoute(schema, router) ==
  /\ IsContainer(router)
  /\ \/ schema.tag = "route"
     \/ /\ schema.tag = "router"
        /\ \E i \in 1..Len(router.props) :
             /\ router.props[i].k \in DOMAIN schema.kids
             /\ ContainerFacesRoute(schema.kids[router.props[i].k],
                                    router.props[i].v)

C16_ContainerOnRouteRejected ==
  (started /\ WithinSchema(contract, impl)
     /\ ContainerFacesRoute(contract, impl)) =>
    error \in StructuralMismatch

(***************************************************************************)
(* C17: when the walker meets an implementation node that is a leaf (a     *)
(* callable, or an object whose `handler` is callable) at a key of the     *)
(* schema: if the schema node is a Router, createExpressEndpoints fails    *)
(* with a StructuralMismatch error and the leaf callback is not invoked    *)
(* for the node; otherwise the callback is invoked exactly once with that  *)
(* implementation node and that schema node.  The nodes taken are the      *)
(* top-level entries the walk reaches, those preceded only by leaves that  *)
(* face routes.                                                            *)
(***************************************************************************)
IsLeaf(router) == IsFunction(router) \/ IsFunction(Get(router, "handler"))

LeafOnRoute(i) ==
  /\ IsLeaf(impl.props[i].v)
  /\ impl.props[i].k \in DOMAIN contract.kids
  /\ contract.kids[impl.props[i].k].tag = "route"

Reached(i) == \A j \in 1..(i - 1) : LeafOnRoute(j)

C17_LeafVisitedOnceOrRejected ==
  started =>
    \A i \in 1..Len(impl.props) :
      (Reached(i) /\ IsLeaf(impl.props[i].v)
         /\ impl.props[i].k \in DOMAIN contract.kids) =>
        LET node == impl.props[i].v
            schema == contract.kids[impl.props[i].k]
        IN IF schema.tag = "router"
           THEN /\ error = ExpectedRouteError
                /\ Len(processed) = i - 1
           ELSE /\ Len(processed) >= i
                /\ processed[i] = [implementation |-> node, schema |-> schema]
                /\ (\A j \in 1..Len(impl.props) : LeafOnRoute(j)) =>
                     (Len(processed) = Len(impl.props) /\ error = NoError)

\* the second entry, an options object, was handed to the callback once,
\* with its route, after the first
C17_Witness ==
  /\ started
  /\ Len(impl.props) = 2
  /\ LeafOnRoute(1)
  /\ LeafOnRoute(2)
  /\ impl.props[2].v.t = "object"
  /\ Len(processed) = 2
  /\ processed[2].implementation = impl.props[2].v

(***************************************************************************)
(* C18: when the route implementation returns, the status sent is the      *)
(* status it returned coerced to a number and the body is sent as JSON;    *)
(* with response validation disabled the body sent is exactly the body it  *)
(* returned, with no check.                                                *)
(***************************************************************************)
CoercedStatus(value) ==
  IF value.t = "number" THEN value.n
  ELSE IF value.v = "201" THEN 201
  ELSE IF value.v = "200" THEN 200 ELSE 404

Returned(r) == settled[r] # << >> /\ ~settled[r][1].threw

C18_StatusCoercedBodyAsReturned ==
  \A r \in Requests :
    Returned(r) =>
      LET result == settled[r][1].result IN
        /\ \A i \in 1..Len(res[r]) :
             /\ res[r][i].via = "json"
             /\ res[r][i].status = CoercedStatus(result.status)
        /\ Len(res[r]) + Len(forwarded[r]) = 1
        /\ ~args.options.responseValidation =>
             res[r] = <<[via |-> "json",
                         status |-> CoercedStatus(result.status),
                         body |-> result.body]>>

\* the status "201", a string, was sent as the number 201 with a body no
\* response shape of the route allows, response validation being disabled
C18_Witness ==
  \E r \in Requests :
    /\ ~args.options.responseValidation
    /\ Returned(r)
    /\ settled[r][1].result = [status |-> Str("201"),
                               body |-> [extra |-> Str("1")]]
    /\ res[r] = <<Json(201, [extra |-> Str("1")])>>

(***************************************************************************)
(* C19: after createExpressEndpoints has returned without error, every     *)
(* leaf Route of the schema has a handler chain registered on the router;  *)
(* a schema route the implementation tree supplies no entry for is not     *)
(* left unregistered silently.  The pairs taken are those of a valid       *)
(* schema whose implementation mirrors the schema at every key it does     *)
(* supply, so that only missing keys can leave a route out.                *)
(***************************************************************************)
RECURSIVE RoutesOf(_)
RoutesOf(schema) ==
  IF schema.tag = "route" THEN {schema}
  ELSE UNION {RoutesOf(schema.kids[k]) : k \in DOMAIN schema.kids}

\* the implementation has the shape of the schema at the keys it supplies
RECURSIVE MirrorsWhereSupplied(_, _)
MirrorsWhereSupplied(schema, router) ==
  IF schema.tag = "route" THEN IsRouteImplementation(router)
  ELSE /\ router.t = "object"
       /\ ~IsFunction(Get(router, "handler"))
       /\ KeysOf(router) \subseteq DOMAIN schema.kids
       /\ \A i \in 1..Len(router.props) :
            MirrorsWhereSupplied(schema.kids[router.props[i].k],
                                 router.props[i].v)

Registered(route) ==
  \E i \in 1..Len(app) :
    /\ app[i].path = route.path
    /\ app[i].call = MethodCall[route.method]

C19_EveryRouteRegistered ==
  (started /\ error = NoError /\ ValidSchema(contract)
     /\ MirrorsWhereSupplied(contract, impl)) =>
    \A route \in RoutesOf(contract) : Registered(route)

(***************************************************************************)
(* C20: every request that has entered a handler chain reaches a terminal  *)
(* outcome: a 400 response, a success response, or an error forwarded      *)
(* through next.  As a property of finite runs: a request in a chain has   *)
(* reached one of these or still has a step to take, so that it cannot be  *)
(* left for ever without a response and without next having been called,   *)
(* a request whose context function threw or rejected included.            *)
(***************************************************************************)
Terminal(r) == res[r] # << >> \/ forwarded[r] # << >>

RequestStep(r) ==
  \/ contextResolves(r)
  \/ contextRejects(r)
  \/ middleware(r)
  \/ mainReqHandler(r)
  \/ \E outcome \in HandlerOutcomes : handlerSettles(r, outcome)

C20_RequestReachesOutcome ==
  \A r \in Requests :
    pc[r] # "idle" => (Terminal(r) \/ ENABLED RequestStep(r))

(***************************************************************************)
(* C21: for every request that reaches the main handler, the main handler  *)
(* produces exactly one of three mutually exclusive outcomes: a 400        *)
(* response when validation failed, a response with the status the route   *)
(* implementation returned, or an error forwarded through next.  It never  *)
(* both sends a response and calls next, and never sends two responses.    *)
(***************************************************************************)
SentBadRequest(r) ==
  /\ Len(res[r]) = 1
  /\ res[r][1].via = "send"
  /\ res[r][1].status = 400
  /\ forwarded[r] = << >>

SentSuccess(r) ==
  /\ Len(res[r]) = 1
  /\ res[r][1].via = "json"
  /\ Returned(r)
  /\ res[r][1].status = CoercedStatus(settled[r][1].result.status)
  /\ forwarded[r] = << >>

ForwardedError(r) ==
  /\ Len(forwarded[r]) = 1
  /\ res[r] = << >>

OutcomesOf(r) ==
  (IF SentBadRequest(r) THEN {"badRequest"} ELSE {})
    \cup (IF SentSuccess(r) THEN {"success"} ELSE {})
    \cup (IF ForwardedError(r) THEN {"next"} ELSE {})

C21_ExactlyOneOutcome ==
  \A r \in Requests :
    /\ Len(res[r]) <= 1
    /\ Len(forwarded[r]) <= 1
    /\ ~(res[r] # << >> /\ forwarded[r] # << >>)
    /\ pc[r] = "handlerAwait" => (res[r] = << >> /\ forwarded[r] = << >>)
    /\ pc[r] = "done" =>
         /\ Cardinality(OutcomesOf(r)) = 1
         /\ SentBadRequest(r) <=> FirstFailing(r) # 0
         /\ SentSuccess(r) => settled[r] # << >>
         /\ ForwardedError(r) => settled[r] # << >>

\* one request was answered 400 and the other, in flight beside it, with the
\* status its route implementation returned
C21_Witness ==
  /\ pc["r1"] = "done"
  /\ pc["r2"] = "done"
  /\ SentBadRequest("r1")
  /\ SentSuccess("r2")
  /\ res["r2"][1].status = 200

=============================================================================
